---------------------------- MODULE Spec2Model ----------------------------
(***************************************************************************)
(* Dashboard list manager (DashboardList: handleDelete, handleDuplicate,   *)
(* renderDropdownMenu, renderDashboardGrid, onCursor) and the spans        *)
(* dataset configuration (getEventsTableFieldOptions, filterTableOptions,  *)
(* filterAggregateParams, getEventsRequest).                               *)
(*                                                                         *)
(* The module holds four state machines over one set of variables, one    *)
(* per group of operations; each specification moves the variables of its *)
(* own group and leaves the others at their initial values.                *)
(***************************************************************************)
EXTENDS Integers, Sequences, FiniteSets, TLC

VARIABLES
  \* ---- pagination (onCursor) ----
  pgEvent,        \* the arguments the pagination control passes to onCursor
  navigated,      \* the calls made to navigate(), in order
  tracked,        \* the analytics events tracked by onCursor, in order
  \* ---- dashboard list (handleDelete, handleDuplicate, render) ----
  server,         \* the backend's dashboards and its identifier counters
  dashboards,     \* the dashboards prop: undefined or the array displayed
  refreshPending, \* onDashboardsChange was called and the new list is awaited
  tasks,          \* the user actions started from the cards' quick menus
  \* ---- dataset configuration (field options, option filters) ----
  cfgOption,      \* the option handed to the filters
  cfgTags,        \* the tag catalog handed to getTableFieldOptions
  aggregateParam, \* what filterAggregateParams returned, once called
  tableOption,    \* what filterTableOptions returned, once called
  fieldOptions,   \* what getTableFieldOptions returned, once called
  \* ---- dataset configuration (table request) ----
  reqInput,       \* the arguments of getTableRequest
  request         \* the events request: attempts made and answers received

pgVars == <<pgEvent, navigated, tracked>>

listVars == <<server, dashboards, refreshPending, tasks>>

cfgVars == <<cfgOption, cfgTags, aggregateParam, tableOption, fieldOptions>>

reqVars == <<reqInput, request>>

vars == <<pgVars, listVars, cfgVars, reqVars>>

(***************************************************************************)
(* JavaScript values                                                       *)
(***************************************************************************)

\* the value undefined
JSUndefined == [type |-> "undefined"]

\* a string value, held as the sequence of its characters
JSString(chars) == [type |-> "string", chars |-> chars]

\* a finite number value
JSNumber(n) == [type |-> "number", nan |-> FALSE, val |-> n]

\* the number value NaN
JSNaN == [type |-> "number", nan |-> TRUE, val |-> 0]

\* x ?? d : d when x is undefined (or null), else x
Nullish(x, d) == IF x = JSUndefined THEN d ELSE x

\* a <= b on number values: false as soon as one side is NaN
JSLessEq(a, b) == ~a.nan /\ ~b.nan /\ a.val <= b.val

Digits == {"0", "1", "2", "3", "4", "5", "6", "7", "8", "9"}

DigitValue(c) ==
  CASE c = "0" -> 0 [] c = "1" -> 1 [] c = "2" -> 2 [] c = "3" -> 3
    [] c = "4" -> 4 [] c = "5" -> 5 [] c = "6" -> 6 [] c = "7" -> 7
    [] c = "8" -> 8 [] c = "9" -> 9

\* the value of a sequence of decimal digits
RECURSIVE DecimalValue(_)
DecimalValue(s) ==
  IF s = <<>> THEN 0
  ELSE 10 * DecimalValue(SubSeq(s, 1, Len(s) - 1)) + DigitValue(s[Len(s)])

\* s without its leading and trailing white space
RECURSIVE TrimSpace(_)
TrimSpace(s) ==
  IF s = <<>> THEN s
  ELSE IF Head(s) = " " THEN TrimSpace(Tail(s))
  ELSE IF s[Len(s)] = " " THEN TrimSpace(SubSeq(s, 1, Len(s) - 1))
  ELSE s

AllDigits(s) == \A i \in 1..Len(s) : s[i] \in Digits

\* Number(string): white space is trimmed, the empty string is 0, an
\* optionally signed run of decimal digits is its value, anything else NaN
\* (the numerals with a fraction, an exponent or a radix prefix, and
\* Infinity, cannot be written with the characters the cursors are made of)
StringToNumber(chars) ==
  LET s == TrimSpace(chars)
      signed == s # <<>> /\ Head(s) \in {"-", "+"}
      body == IF signed THEN Tail(s) ELSE s
  IN  IF s = <<>> THEN JSNumber(0)
      ELSE IF body # <<>> /\ AllDigits(body)
        THEN JSNumber(IF Head(s) = "-" THEN 0 - DecimalValue(body)
                      ELSE DecimalValue(body))
      ELSE JSNaN

\* Number(x) for x a number or a string
ToNumber(x) == IF x.type = "number" THEN x ELSE StringToNumber(x.chars)

\* String.prototype.split(sep) for a one-character separator: the fields
\* between the separators, in order (always at least one field)
RECURSIVE Split(_, _)
Split(chars, sep) ==
  IF \A i \in 1..Len(chars) : chars[i] # sep THEN <<chars>>
  ELSE LET k == CHOOSE i \in 1..Len(chars) :
                  chars[i] = sep /\ \A j \in 1..(i - 1) : chars[j] # sep
       IN  <<SubSeq(chars, 1, k - 1)>>
             \o Split(SubSeq(chars, k + 1, Len(chars)), sep)

(***************************************************************************)
(* Pagination: the onCursor handler of the pagination row                  *)
(***************************************************************************)

MaxCursorLen == 5

CursorChars == {"0", "1", "a", "-", ":"}

CursorStrings ==
  UNION {[1..n -> CursorChars] : n \in 0..MaxCursorLen}

\* the cursors of the documented cases: "100:1:0", "100:0:0", "100:abc:0"
ExampleCursors ==
  { <<"1", "0", "0", ":", "1", ":", "0">>,
    <<"1", "0", "0", ":", "0", ":", "0">>,
    <<"1", "0", "0", ":", "a", "b", "c", ":", "0">> }

\* cursor?: string
Cursors ==
  {JSUndefined} \cup {JSString(s) : s \in CursorStrings \cup ExampleCursors}

Paths ==
  {"/organizations/org-slug/dashboards/", "/organizations/org-slug/dashboards/manage/"}

\* the query objects of the current location: any subset of two keys
Queries ==
  LET q == [query |-> JSString(<<"a">>), cursor |-> JSString(<<"0", ":", "1", ":", "0">>)]
  IN  {[k \in K |-> q[k]] : K \in SUBSET {"query", "cursor"}}

Directions == {-1, 1}

\* cursor?.split?.(':')?.[1]
SecondField(cursor) ==
  IF cursor = JSUndefined THEN JSUndefined
  ELSE LET fields == Split(cursor.chars, ":")
       IN  IF Len(fields) >= 2 THEN JSString(fields[2]) ELSE JSUndefined

\* const offset = Number(cursor?.split?.(':')?.[1] ?? 0)
Offset(cursor) == ToNumber(Nullish(SecondField(cursor), JSNumber(0)))

\* {...query, cursor}
SpreadCursor(query, cursor) ==
  [k \in DOMAIN query \cup {"cursor"} |->
     IF k = "cursor" THEN cursor ELSE query[k]]

\* delete newQuery.cursor
DeleteCursor(query) == [k \in DOMAIN query \ {"cursor"} |-> query[k]]

\* the condition with the comparison made strict
DropsCursorStrict(cursor, direction) ==
  JSLessEq(Offset(cursor), JSNumber(-1)) /\ direction = -1

\* if (offset <= 0 && isPrevious)
DropsCursor(cursor, direction) ==
  JSLessEq(Offset(cursor), JSNumber(0)) /\ direction = -1

\* the query object handed to navigate()
NewQuery(cursor, query, direction) ==
  IF DropsCursor(cursor, direction)
    THEN DeleteCursor(SpreadCursor(query, cursor))
    ELSE SpreadCursor(query, cursor)

PgInit ==
  /\ pgEvent \in [cursor : Cursors, path : Paths, query : Queries,
                  direction : Directions]
  /\ navigated = <<>>
  /\ tracked = <<>>

PgIdle ==
  /\ pgEvent = [cursor |-> JSUndefined, path |-> "", query |-> <<>>,
                direction |-> 1]
  /\ navigated = <<>>
  /\ tracked = <<>>

\* onCursor(cursor, path, query, direction)
onCursor ==
  /\ navigated = <<>>
  /\ tracked' = Append(tracked, "dashboards_manage.paginate")
  /\ navigated' = Append(navigated,
       [pathname |-> pgEvent.path,
        query |-> NewQuery(pgEvent.cursor, pgEvent.query, pgEvent.direction)])
  /\ UNCHANGED pgEvent
  /\ UNCHANGED <<listVars, cfgVars, reqVars>>

PgNext == onCursor

(***************************************************************************)
(* Dashboard list: the backend, the displayed list and its rendering       *)
(***************************************************************************)

MaxTasks == 2
MaxInitDashboards == 2
MaxWidgets == 2

Tasks == 1..MaxTasks

\* an array value
JSArray(items) == [type |-> "array", items |-> items]

DigitChar(d) == CHOOSE c \in Digits : DigitValue(c) = d

\* the decimal string of a natural number
RECURSIVE ToDecimal(_)
ToDecimal(n) ==
  IF n < 10 THEN <<DigitChar(n)>>
  ELSE ToDecimal(n \div 10) \o <<DigitChar(n % 10)>>

\* parseInt(s, 10) of a string of decimal digits
parseInt(s) == DecimalValue(s.chars)

\* the elements of a finite set of integers in increasing order
RECURSIVE SortedIds(_)
SortedIds(S) ==
  IF S = {} THEN <<>>
  ELSE LET m == CHOOSE x \in S : \A y \in S : x <= y
       IN  <<m>> \o SortedIds(S \ {m})

\* a saved widget: the backend gave it an identifier
Widget(n) ==
  [id |-> JSString(ToDecimal(n)), title |-> "Widget", displayType |-> "table"]

\* the dashboard the backend holds under identifier n, with `count` widgets
\* whose identifiers start at firstWidget
InitDashboard(n, count, firstWidget) ==
  [id |-> JSString(ToDecimal(n)),
   title |-> "Dashboard",
   widgets |-> [j \in 1..count |-> Widget(firstWidget + j - 1)]]

\* the number of widgets of the i-th initial dashboard: MaxWidgets for the
\* first, one fewer for each further one, down to none and round again
InitWidgetCount(i) == MaxWidgets - ((i - 1) % (MaxWidgets + 1))

\* the backends the model starts from: up to MaxInitDashboards dashboards
\* of up to MaxWidgets widgets each
InitServers ==
  {[dashboards |->
      [i \in 1..n |->
         InitDashboard(i, InitWidgetCount(i), (i - 1) * MaxWidgets + 1)],
    nextId |-> n + 1,
    nextWidgetId |-> n * MaxWidgets + 1] : n \in 0..MaxInitDashboards}

\* a DashboardListItem of the list endpoint
ListItem(detail) ==
  [id |-> detail.id,
   title |-> detail.title,
   widgetPreview |->
     [j \in 1..Len(detail.widgets) |->
        [displayType |-> detail.widgets[j].displayType]]]

\* the list endpoint's answer, in identifier order
ListItems(srv) ==
  LET ids == SortedIds(DOMAIN srv.dashboards)
  IN  [i \in 1..Len(ids) |-> ListItem(srv.dashboards[ids[i]])]

\* fetchDashboard: the full detail of a dashboard the backend holds
fetchDashboard(srv, id) == srv.dashboards[parseInt(id)]

\* deleteDashboard: the backend without the dashboard
deleteDashboard(srv, id) ==
  [srv EXCEPT !.dashboards =
     [k \in DOMAIN srv.dashboards \ {parseInt(id)} |-> srv.dashboards[k]]]

\* createDashboard: the backend stores the dashboard under a new identifier
\* and gives every widget a new identifier
createDashboard(srv, newDashboard) ==
  LET n == srv.nextId
      stored ==
        [id |-> JSString(ToDecimal(n)),
         title |-> newDashboard.title,
         widgets |->
           [j \in 1..Len(newDashboard.widgets) |->
              [newDashboard.widgets[j] EXCEPT
                 !.id = JSString(ToDecimal(srv.nextWidgetId + j - 1))]]]
  IN  [dashboards |->
         [k \in DOMAIN srv.dashboards \cup {n} |->
            IF k = n THEN stored ELSE srv.dashboards[k]],
       nextId |-> n + 1,
       nextWidgetId |-> srv.nextWidgetId + Len(newDashboard.widgets)]

\* cloneDashboard: a deep copy of the detail without its identifier, under
\* a copy's title
cloneDashboard(detail) ==
  [title |-> detail.title \o " copy", widgets |-> detail.widgets]

\* dashboards?.length is falsy
NoDashboards(dash) == dash = JSUndefined \/ Len(dash.items) = 0

\* the comparison made strict
DisabledKeysStrict(dash) ==
  IF dash # JSUndefined /\ Len(dash.items) < 1
    THEN {"dashboard-delete"} ELSE {}

\* disabledKeys={dashboards && dashboards.length <= 1 ? ['dashboard-delete'] : []}
DisabledKeys(dash) ==
  IF dash # JSUndefined /\ Len(dash.items) <= 1
    THEN {"dashboard-delete"} ELSE {}

\* the quick menu of one card
renderDropdownMenu(dash, dashboard) ==
  [items |-> <<"dashboard-duplicate", "dashboard-delete">>,
   dashboard |-> dashboard.id,
   disabledKeys |-> DisabledKeys(dash)]

\* tn('%s widget', '%s widgets', n)
WidgetCountLabel(n) ==
  [count |-> n, text |-> IF n = 1 THEN "widget" ELSE "widgets"]

\* one card per dashboard, in arrival order
renderMiniDashboards(dash) ==
  [i \in 1..Len(dash.items) |->
     [key |-> <<i, dash.items[i].id>>,
      title |-> dash.items[i].title,
      detail |-> WidgetCountLabel(Len(dash.items[i].widgetPreview)),
      contextMenu |-> renderDropdownMenu(dash, dash.items[i])]]

\* the empty-state warning, or the grid of cards
renderDashboardGrid(dash) ==
  IF NoDashboards(dash)
    THEN [kind |-> "EmptyStateWarning", cards |-> <<>>]
    ELSE [kind |-> "DashboardGrid", cards |-> renderMiniDashboards(dash)]

\* what the component displays in the current state
View == renderDashboardGrid(dashboards)

\* the quick-menu action `key` of card i can be chosen
CanChoose(i, key) ==
  /\ i \in 1..Len(View.cards)
  /\ key \notin View.cards[i].contextMenu.disabledKeys

(***************************************************************************)
(* Dashboard list: handleDelete and handleDuplicate                        *)
(***************************************************************************)

IdleTask ==
  [pc |-> "idle", op |-> "none", dashboard |-> JSUndefined,
   detail |-> JSUndefined, responses |-> <<>>, events |-> <<>>]

Notification(kind, message) == [type |-> kind, message |-> message]

TrackAnalytics(event, dashboard) ==
  [type |-> "trackAnalytics", event |-> event,
   dashboard_id |-> parseInt(dashboard.id)]

OnDashboardsChange == [type |-> "onDashboardsChange"]

\* the calls in `calls` that ask the parent to reload the list
CallsRefresh(calls) ==
  \E i \in 1..Len(calls) : calls[i].type = "onDashboardsChange"

\* handleDelete, the .then callback
DeleteThen(dashboard) ==
  << TrackAnalytics("dashboards_manage.delete", dashboard),
     OnDashboardsChange,
     Notification("addSuccessMessage", "Dashboard deleted") >>

\* the .catch callback also asking for a reload
DeleteCatchReloads(dashboard) ==
  << OnDashboardsChange,
     Notification("addErrorMessage", "Error deleting Dashboard") >>

\* handleDelete, the .catch callback
DeleteCatch(dashboard) ==
  << Notification("addErrorMessage", "Error deleting Dashboard") >>

\* the identifiers left in place
KeepWidgetIds(newDashboard) == newDashboard

\* handleDuplicate: newDashboard.widgets.map(widget => (widget.id = undefined))
StripWidgetIds(newDashboard) ==
  [newDashboard EXCEPT !.widgets =
     [j \in 1..Len(newDashboard.widgets) |->
        [newDashboard.widgets[j] EXCEPT !.id = JSUndefined]]]

\* handleDuplicate: createDashboard(api, organization.slug, newDashboard, true)
CreateRequest(newDashboard) ==
  [type |-> "createDashboard", dashboard |-> newDashboard, duplicate |-> TRUE]

\* the success notification emitted before the reload is asked for
DuplicateThenSwapped(dashboard) ==
  << TrackAnalytics("dashboards_manage.duplicate", dashboard),
     Notification("addSuccessMessage", "Dashboard duplicated"),
     OnDashboardsChange >>

\* handleDuplicate, the statements after the awaited create request
DuplicateThen(dashboard) ==
  << TrackAnalytics("dashboards_manage.duplicate", dashboard),
     OnDashboardsChange,
     Notification("addSuccessMessage", "Dashboard duplicated") >>

\* handleDuplicate, the catch block
DuplicateCatch(dashboard) ==
  << Notification("addErrorMessage", "Error duplicating Dashboard") >>

ListInit ==
  /\ server \in InitServers
  /\ dashboards \in {JSUndefined, JSArray(ListItems(server))}
  /\ refreshPending = FALSE
  /\ tasks = [t \in Tasks |-> IdleTask]

ListIdle ==
  /\ server = [dashboards |-> <<>>, nextId |-> 1, nextWidgetId |-> 1]
  /\ dashboards = JSUndefined
  /\ refreshPending = FALSE
  /\ tasks = <<>>

\* the user actions are numbered in the order they begin
NextToStart(t) ==
  /\ tasks[t].pc = "idle"
  /\ \A u \in Tasks : u < t => tasks[u].pc # "idle"

\* task t goes on to `pc` having seen `response` and made `calls`
Step(t, pc, response, calls) ==
  /\ tasks' = [tasks EXCEPT ![t].pc = pc,
                            ![t].responses = Append(@, response),
                            ![t].events = @ \o calls]
  /\ refreshPending' = (refreshPending \/ CallsRefresh(calls))

\* the quick menu's Delete of card i: the confirmation modal opens
onActionDelete(t, i) ==
  /\ NextToStart(t)
  /\ CanChoose(i, "dashboard-delete")
  /\ tasks' = [tasks EXCEPT ![t].pc = "confirm", ![t].op = "delete",
                            ![t].dashboard = dashboards.items[i]]
  /\ UNCHANGED <<server, dashboards, refreshPending>>
  /\ UNCHANGED <<pgVars, cfgVars, reqVars>>

\* the modal's onConfirm: handleDelete issues the delete request
handleDelete(t) ==
  /\ tasks[t].pc = "confirm"
  /\ tasks' = [tasks EXCEPT ![t].pc = "deleting",
                 ![t].events = Append(@, [type |-> "deleteDashboard",
                                          id |-> tasks[t].dashboard.id])]
  /\ UNCHANGED <<server, dashboards, refreshPending>>
  /\ UNCHANGED <<pgVars, cfgVars, reqVars>>

\* the delete request succeeds
deleteResolved(t) ==
  /\ tasks[t].pc = "deleting"
  /\ parseInt(tasks[t].dashboard.id) \in DOMAIN server.dashboards
  /\ server' = deleteDashboard(server, tasks[t].dashboard.id)
  /\ Step(t, "done", "delete resolved", DeleteThen(tasks[t].dashboard))
  /\ UNCHANGED dashboards
  /\ UNCHANGED <<pgVars, cfgVars, reqVars>>

\* the delete request fails
deleteRejected(t) ==
  /\ tasks[t].pc = "deleting"
  /\ Step(t, "done", "delete rejected", DeleteCatch(tasks[t].dashboard))
  /\ UNCHANGED <<server, dashboards>>
  /\ UNCHANGED <<pgVars, cfgVars, reqVars>>

\* the quick menu's Duplicate of card i: handleDuplicate issues the fetch
handleDuplicate(t, i) ==
  /\ NextToStart(t)
  /\ CanChoose(i, "dashboard-duplicate")
  /\ tasks' = [tasks EXCEPT ![t].pc = "fetching", ![t].op = "duplicate",
                 ![t].dashboard = dashboards.items[i],
                 ![t].events = Append(@, [type |-> "fetchDashboard",
                                          id |-> dashboards.items[i].id])]
  /\ UNCHANGED <<server, dashboards, refreshPending>>
  /\ UNCHANGED <<pgVars, cfgVars, reqVars>>

\* the fetch succeeds: the detail is cloned, its widgets lose their
\* identifiers and the create request is issued
fetchResolved(t) ==
  /\ tasks[t].pc = "fetching"
  /\ parseInt(tasks[t].dashboard.id) \in DOMAIN server.dashboards
  /\ LET dashboardDetail == fetchDashboard(server, tasks[t].dashboard.id)
         newDashboard == StripWidgetIds(cloneDashboard(dashboardDetail))
     IN  /\ tasks' = [tasks EXCEPT ![t].pc = "creating",
                        ![t].detail = dashboardDetail,
                        ![t].responses = Append(@, "fetch resolved"),
                        ![t].events = Append(@, CreateRequest(newDashboard))]
  /\ UNCHANGED <<server, dashboards, refreshPending>>
  /\ UNCHANGED <<pgVars, cfgVars, reqVars>>

\* the fetch succeeds and cloning the detail throws
cloneThrows(t) ==
  /\ tasks[t].pc = "fetching"
  /\ parseInt(tasks[t].dashboard.id) \in DOMAIN server.dashboards
  /\ Step(t, "done", "clone threw", DuplicateCatch(tasks[t].dashboard))
  /\ UNCHANGED <<server, dashboards>>
  /\ UNCHANGED <<pgVars, cfgVars, reqVars>>

\* the fetch fails
fetchRejected(t) ==
  /\ tasks[t].pc = "fetching"
  /\ Step(t, "done", "fetch rejected", DuplicateCatch(tasks[t].dashboard))
  /\ UNCHANGED <<server, dashboards>>
  /\ UNCHANGED <<pgVars, cfgVars, reqVars>>

\* the create request succeeds
createResolved(t) ==
  /\ tasks[t].pc = "creating"
  /\ LET create == tasks[t].events[Len(tasks[t].events)]
     IN  server' = createDashboard(server, create.dashboard)
  /\ Step(t, "done", "create resolved", DuplicateThen(tasks[t].dashboard))
  /\ UNCHANGED dashboards
  /\ UNCHANGED <<pgVars, cfgVars, reqVars>>

\* the create request fails
createRejected(t) ==
  /\ tasks[t].pc = "creating"
  /\ Step(t, "done", "create rejected", DuplicateCatch(tasks[t].dashboard))
  /\ UNCHANGED <<server, dashboards>>
  /\ UNCHANGED <<pgVars, cfgVars, reqVars>>

\* the parent's reload lands: the list is replaced wholesale
refreshLands ==
  /\ refreshPending
  /\ dashboards' = JSArray(ListItems(server))
  /\ refreshPending' = FALSE
  /\ UNCHANGED <<server, tasks>>
  /\ UNCHANGED <<pgVars, cfgVars, reqVars>>

\* the parent's reload fails: the stale list remains
refreshFails ==
  /\ refreshPending
  /\ refreshPending' = FALSE
  /\ UNCHANGED <<server, dashboards, tasks>>
  /\ UNCHANGED <<pgVars, cfgVars, reqVars>>

ListNext ==
  \/ \E t \in Tasks, i \in 1..Len(View.cards) : onActionDelete(t, i)
  \/ \E t \in Tasks : handleDelete(t)
  \/ \E t \in Tasks : deleteResolved(t)
  \/ \E t \in Tasks : deleteRejected(t)
  \/ \E t \in Tasks, i \in 1..Len(View.cards) : handleDuplicate(t, i)
  \/ \E t \in Tasks : fetchResolved(t)
  \/ \E t \in Tasks : cloneThrows(t)
  \/ \E t \in Tasks : fetchRejected(t)
  \/ \E t \in Tasks : createResolved(t)
  \/ \E t \in Tasks : createRejected(t)
  \/ refreshLands
  \/ refreshFails

(***************************************************************************)
(* Spans dataset configuration: field options and option filters          *)
(***************************************************************************)

MaxTags == 2

\* `${obj.key}`: the property's text, "undefined" for a missing property
Template(obj, key) == IF key \in DOMAIN obj THEN obj[key] ELSE "undefined"

\* 'key' in obj
Has(obj, key) == key \in DOMAIN obj

\* the tags of a catalog: key and name are required, kind is optional
TagKinds == {"tag", "measurement", "function"}

TagKeys == {"span.op", "avg"}

Tags ==
  {[k \in K |-> CASE k = "key" -> key [] k = "name" -> key [] k = "kind" -> kind] :
     K \in {{"key", "name"}, {"key", "name", "kind"}},
     key \in TagKeys, kind \in TagKinds}

\* tags?: TagCollection -- absent, or the object's values in their order
TagCatalogs ==
  {JSUndefined} \cup
  {[type |-> "object", values |-> v] :
     v \in UNION {[1..n -> Tags] : n \in 0..MaxTags}}

\* the aggregates of ALLOWED_EXPLORE_VISUALIZE_AGGREGATES the model keeps
Aggregates == {"avg", "count"}

\* EAP_AGGREGATIONS: one sortable aggregation per aggregate, taking one
\* required column parameter of type number or string
EAP_AGGREGATIONS ==
  [a \in Aggregates |->
     [isSortable |-> TRUE,
      parameters |-> << [kind |-> "column",
                         columnTypes |-> <<"number", "string">>,
                         defaultValue |-> "span.duration",
                         required |-> TRUE] >>]]

\* generateFieldOptions without tag or field keys: one function option per
\* aggregation, under the key "function:<name>"
generateFieldOptions(aggregations) ==
  [k \in {"function:" \o a : a \in DOMAIN aggregations} |->
     LET a == CHOOSE x \in DOMAIN aggregations : k = "function:" \o x
     IN  [label |-> a \o "(...)",
          value |-> [kind |-> "function",
                     meta |-> [name |-> a,
                               parameters |-> aggregations[a].parameters]]]]

\* the key built from the tag's key alone
TagOptionKeyWithoutKind(tag) == Template(tag, "key")

\* `${tag.kind}:${tag.key}`
TagOptionKey(tag) == Template(tag, "kind") \o ":" \o Template(tag, "key")

\* tag.kind === 'tag' ? 'string' : 'number'
TagDataType(tag) ==
  IF Has(tag, "kind") /\ tag["kind"] = "tag" THEN "string" ELSE "number"

\* the option the reducer builds for one tag
TagOption(tag) ==
  [label |-> tag["name"],
   value |-> [kind |-> "tag",
              meta |-> [name |-> tag["key"], dataType |-> TagDataType(tag)]]]

\* {...a, ...b}
Spread(a, b) ==
  [k \in DOMAIN a \cup DOMAIN b |-> IF k \in DOMAIN b THEN b[k] ELSE a[k]]

\* Object.values(tags ?? {}).reduce((acc, tag) => ({...acc, [key]: option}), {})
RECURSIVE ReduceTags(_, _)
ReduceTags(values, acc) ==
  IF values = <<>> THEN acc
  ELSE LET tag == Head(values)
           entry == [k \in {TagOptionKey(tag)} |-> TagOption(tag)]
       IN  ReduceTags(Tail(values), Spread(acc, entry))

\* {}
EmptyObject == [type |-> "object", values |-> <<>>]

\* Object.values(obj)
ObjectValues(obj) == obj.values

\* getEventsTableFieldOptions(organization, tags)
getEventsTableFieldOptions(tags) ==
  LET baseFieldOptions == generateFieldOptions(EAP_AGGREGATIONS)
      spanTags == ReduceTags(ObjectValues(Nullish(tags, EmptyObject)), <<>>)
  IN  Spread(baseFieldOptions, spanTags)

\* the metadata of the options handed to the filters: a name, and optionally
\* a data type and an unknown flag
OptionMetas ==
  {[k \in K |-> CASE k = "name" -> "span.op"
                  [] k = "dataType" -> dataType
                  [] k = "unknown" -> unknown] :
     K \in {{"name"} \cup O : O \in SUBSET {"dataType", "unknown"}},
     dataType \in {"string", "number", "boolean"},
     unknown \in BOOLEAN}

OptionKinds == {"tag", "field", "function"}

\* FieldValueOption
FieldValueOptions ==
  {[label |-> "span.op", value |-> [kind |-> kind, meta |-> meta]] :
     kind \in OptionKinds, meta \in OptionMetas}

\* filterTableOptions(option)
filterTableOptions(option) ==
  IF Has(option.value.meta, "dataType")
    THEN option.value.meta["dataType"] # "number"
    ELSE TRUE

\* the filter without its test of the unknown flag
filterAggregateParamsNoUnknown(option) ==
  IF Has(option.value.meta, "dataType")
    THEN option.value.meta["dataType"] = "number"
    ELSE TRUE

\* filterAggregateParams(option)
filterAggregateParams(option) ==
  IF Has(option.value.meta, "unknown") /\ option.value.meta["unknown"]
    THEN TRUE
  ELSE IF Has(option.value.meta, "dataType")
    THEN option.value.meta["dataType"] = "number"
  ELSE TRUE

CfgInit ==
  /\ cfgOption \in FieldValueOptions
  /\ cfgTags \in TagCatalogs
  /\ aggregateParam = <<>>
  /\ tableOption = <<>>
  /\ fieldOptions = <<>>

CfgIdle ==
  /\ cfgOption = <<>>
  /\ cfgTags = <<>>
  /\ aggregateParam = <<>>
  /\ tableOption = <<>>
  /\ fieldOptions = <<>>

\* SpansConfig.filterAggregateParams(option)
callFilterAggregateParams ==
  /\ aggregateParam = <<>>
  /\ aggregateParam' = <<filterAggregateParams(cfgOption)>>
  /\ UNCHANGED <<cfgOption, cfgTags, tableOption, fieldOptions>>
  /\ UNCHANGED <<pgVars, listVars, reqVars>>

\* SpansConfig.filterTableOptions(option)
callFilterTableOptions ==
  /\ tableOption = <<>>
  /\ tableOption' = <<filterTableOptions(cfgOption)>>
  /\ UNCHANGED <<cfgOption, cfgTags, aggregateParam, fieldOptions>>
  /\ UNCHANGED <<pgVars, listVars, reqVars>>

\* SpansConfig.getTableFieldOptions(organization, tags)
callGetTableFieldOptions ==
  /\ fieldOptions = <<>>
  /\ fieldOptions' = <<getEventsTableFieldOptions(cfgTags)>>
  /\ UNCHANGED <<cfgOption, cfgTags, aggregateParam, tableOption>>
  /\ UNCHANGED <<pgVars, listVars, reqVars>>

CfgNext ==
  \/ callFilterAggregateParams
  \/ callFilterTableOptions
  \/ callGetTableFieldOptions

(***************************************************************************)
(* Spans dataset configuration: the table request and its retries          *)
(***************************************************************************)

\* retry: {statusCodes: [429]}
RetryStatusCodes == {429}

\* one attempt more than the policy's
RetryTriesFour == 3 + 1

\* retry: {tries: 3}

RetryTries == 3

\* the statuses the events endpoint answers with
Statuses == {200, 400, 429, 500}

\* a string value whose characters are not inspected
Text(s) == [type |-> "string", text |-> s]

\* the arguments of getTableRequest that reach the request
RequestInputs ==
  [orderby : {"", "-avg(span.duration)"},
   limit : {JSUndefined, JSNumber(5)},
   cursor : {JSUndefined, Text("0:5:0")},
   referrer : {JSUndefined, Text("api.dashboards.tablewidget")}]

\* eventView.generateQueryStringObject(): the query string of the widget
\* query's view (fields and conditions of the default widget query)
generateQueryStringObject ==
  [field |-> <<"span.op", "avg(span.duration)">>, query |-> Text("")]

\* toArray(value)
toArray(value) == <<value>>

\* const params = {per_page: limit, cursor, referrer, dataset, ...queryExtras}
\* if (query.orderby) { params.sort = toArray(query.orderby) }
RequestParams(input) ==
  LET params == [per_page |-> input.limit,
                 cursor |-> input.cursor,
                 referrer |-> input.referrer,
                 dataset |-> Text("spans-eap")]
  IN  IF input.orderby # ""
        THEN Spread(params, [sort |-> toArray(input.orderby)])
        ELSE params

\* the query of the request: {...eventView.generateQueryStringObject(), ...params}
RequestQuery(input) == Spread(generateQueryStringObject, RequestParams(input))

\* doDiscoverQuery: after a failed attempt another one is made while fewer
\* than `tries` were made and the status is one of `statusCodes`
Retries(tries, statusCodes, made, status) ==
  made < tries /\ status \in statusCodes

ReqInit ==
  /\ reqInput \in RequestInputs
  /\ request = [pc |-> "idle", tries |-> 0, sent |-> <<>>, responses |-> <<>>]

ReqIdle ==
  /\ reqInput = <<>>
  /\ request = <<>>

\* getEventsRequest: the first attempt is sent
getEventsRequest ==
  /\ request.pc = "idle"
  /\ request' = [request EXCEPT !.pc = "waiting", !.tries = 1,
                   !.sent = <<[url |-> "/organizations/org-slug/events/",
                               query |-> RequestQuery(reqInput)]>>]
  /\ UNCHANGED reqInput
  /\ UNCHANGED <<pgVars, listVars, cfgVars>>

\* the endpoint answers 200: the request resolves with the payload
responseOk ==
  /\ request.pc = "waiting"
  /\ request' = [request EXCEPT !.pc = "resolved",
                                !.responses = Append(@, 200)]
  /\ UNCHANGED reqInput
  /\ UNCHANGED <<pgVars, listVars, cfgVars>>

\* the endpoint answers with an error status: the attempt is repeated when
\* the retry policy allows it, else the request is rejected
responseError(status) ==
  /\ request.pc = "waiting"
  /\ status # 200
  /\ IF Retries(RetryTries, RetryStatusCodes, request.tries, status)
       THEN request' = [request EXCEPT !.tries = @ + 1,
                          !.sent = Append(@, request.sent[1]),
                          !.responses = Append(@, status)]
       ELSE request' = [request EXCEPT !.pc = "rejected",
                          !.responses = Append(@, status)]
  /\ UNCHANGED reqInput
  /\ UNCHANGED <<pgVars, listVars, cfgVars>>

ReqNext ==
  \/ getEventsRequest
  \/ responseOk
  \/ \E status \in Statuses : responseError(status)

(***************************************************************************)
(* Properties of the pagination handler                                    *)
(***************************************************************************)

\* the navigation made for the event, once onCursor has run
Navigation == navigated[1]

CursorOf(chars) == JSString(chars)

\* C4: the navigation query omits 'cursor' exactly when the offset derived
\* from the cursor is <= 0 and the direction is previous (-1); otherwise it
\* carries the new cursor verbatim; every other key of the incoming query is
\* forwarded unchanged and the pathname is the given path.  "100:1:0" with
\* previous keeps the cursor, "100:0:0" with previous drops it, "100:0:0"
\* with next keeps it.
PaginateCursorRule ==
  navigated # <<>> =>
    LET e == pgEvent
        q == Navigation.query
        k100_1_0 == CursorOf(<<"1", "0", "0", ":", "1", ":", "0">>)
        k100_0_0 == CursorOf(<<"1", "0", "0", ":", "0", ":", "0">>)
    IN  /\ Len(navigated) = 1
        /\ Navigation.pathname = e.path
        /\ ("cursor" \notin DOMAIN q) <=>
             (JSLessEq(Offset(e.cursor), JSNumber(0)) /\ e.direction = -1)
        /\ "cursor" \in DOMAIN q => q["cursor"] = e.cursor
        /\ DOMAIN q \ {"cursor"} = DOMAIN e.query \ {"cursor"}
        /\ \A k \in DOMAIN e.query \ {"cursor"} : q[k] = e.query[k]
        /\ (e.cursor = k100_1_0 /\ e.direction = -1) => "cursor" \in DOMAIN q
        /\ (e.cursor = k100_0_0 /\ e.direction = -1) => "cursor" \notin DOMAIN q
        /\ (e.cursor = k100_0_0 /\ e.direction = 1) => "cursor" \in DOMAIN q

\* a previous-page event for "100:0:0" on a query that holds another key
\* and an older cursor has navigated, and the cursor is gone
PaginateCursorDropped ==
  /\ navigated # <<>>
  /\ pgEvent.cursor = CursorOf(<<"1", "0", "0", ":", "0", ":", "0">>)
  /\ pgEvent.direction = -1
  /\ DOMAIN pgEvent.query = {"query", "cursor"}
  /\ DOMAIN Navigation.query = {"query"}

\* the cursor is a string whose second colon-delimited field is present,
\* not blank and not an optionally signed decimal numeral
SecondFieldUnparseable(cursor) ==
  /\ cursor # JSUndefined
  /\ Len(Split(cursor.chars, ":")) >= 2
  /\ LET f == TrimSpace(Split(cursor.chars, ":")[2])
         digits == IF f # <<>> /\ Head(f) \in {"-", "+"} THEN Tail(f) ELSE f
     IN  f # <<>> /\ (digits = <<>> \/ ~AllDigits(digits))

\* the cursor is undefined or has no second colon-delimited field
SecondFieldAbsent(cursor) ==
  cursor = JSUndefined \/ Len(Split(cursor.chars, ":")) < 2

\* C5: the offset defaults to 0 whenever the cursor's second field is absent
\* or unparseable, so for a cursor that is undefined, has no second field or
\* has a non-numeric second field ("100:abc:0") a previous navigation drops
\* the cursor from the navigation query.
PaginateUnparseableDropsCursor ==
  (/\ navigated # <<>>
   /\ pgEvent.direction = -1
   /\ SecondFieldAbsent(pgEvent.cursor) \/ SecondFieldUnparseable(pgEvent.cursor))
    => /\ Offset(pgEvent.cursor) = JSNumber(0)
       /\ "cursor" \notin DOMAIN Navigation.query

(***************************************************************************)
(* Properties of the dashboard list                                        *)
(***************************************************************************)

\* the types of the calls in a sequence of events
Types(events) == [k \in 1..Len(events) |-> events[k].type]

IsNotification(e) == e.type \in {"addSuccessMessage", "addErrorMessage"}

\* the notifications among the events, in order
Notifications(events) == SelectSeq(events, IsNotification)

\* the events of the given types, in order
Only(events, types) == SelectSeq(Types(events), LAMBDA x : x \in types)

LastResponse(task) == task.responses[Len(task.responses)]

\* C1: whenever a duplicate action issues a create request, the dashboard
\* passed to it has as many widgets as the fetched detail and every one of
\* them has an undefined identifier, whatever identifiers the fetched
\* widgets carried.
DuplicateStripsWidgetIds ==
  \A t \in DOMAIN tasks :
    \A k \in 1..Len(tasks[t].events) :
      LET e == tasks[t].events[k]
      IN  e.type = "createDashboard" =>
            /\ Len(e.dashboard.widgets) = Len(tasks[t].detail.widgets)
            /\ \A j \in 1..Len(e.dashboard.widgets) :
                 e.dashboard.widgets[j].id = JSUndefined

\* a create request was issued for a detail of two widgets that both
\* carried an identifier
DuplicateOfTwoWidgets ==
  \E t \in DOMAIN tasks :
    /\ tasks[t].pc \in {"creating", "done"}
    /\ tasks[t].detail # JSUndefined
    /\ Len(tasks[t].detail.widgets) = 2
    /\ \A j \in 1..2 : tasks[t].detail.widgets[j].id # JSUndefined
    /\ "createDashboard" \in {tasks[t].events[k].type :
                                k \in 1..Len(tasks[t].events)}

\* C2: when the delete request succeeds the list-refresh callback is
\* invoked and then the success notification 'Dashboard deleted' is
\* emitted; when it fails the error notification 'Error deleting Dashboard'
\* is emitted, the refresh callback is not invoked, no success notification
\* is emitted and the displayed list is left unchanged.
DeleteOutcome ==
  [][\A t \in DOMAIN tasks :
       (tasks[t].pc = "deleting" /\ tasks'[t].pc = "done") =>
         LET new == SubSeq(tasks'[t].events, Len(tasks[t].events) + 1,
                           Len(tasks'[t].events))
         IN  IF LastResponse(tasks'[t]) = "delete resolved"
               THEN /\ Only(new, {"onDashboardsChange", "addSuccessMessage",
                                  "addErrorMessage"})
                         = <<"onDashboardsChange", "addSuccessMessage">>
                    /\ Notifications(new)[1].message = "Dashboard deleted"
                    /\ refreshPending'
               ELSE /\ Only(new, {"onDashboardsChange", "addSuccessMessage",
                                  "addErrorMessage"}) = <<"addErrorMessage">>
                    /\ Notifications(new)[1].message = "Error deleting Dashboard"
                    /\ refreshPending' = refreshPending
                    /\ dashboards' = dashboards
                    /\ server' = server]_vars

\* one delete action has ended in success and another in failure
DeleteBothOutcomes ==
  \E t, u \in DOMAIN tasks :
    /\ tasks[t].op = "delete" /\ tasks[t].pc = "done"
    /\ LastResponse(tasks[t]) = "delete resolved"
    /\ tasks[u].op = "delete" /\ tasks[u].pc = "done"
    /\ LastResponse(tasks[u]) = "delete rejected"

Failures == {"fetch rejected", "clone threw", "create rejected"}

\* C3: a duplicate action runs fetch, create, refresh, success in that
\* order; if the fetch, the clone or the create fails, exactly one error
\* notification 'Error duplicating Dashboard' is emitted, no success
\* notification is emitted, the refresh callback is not invoked and, when
\* the fetch failed, no create request is issued.  A completed duplicate
\* action has emitted exactly one notification, a running one none.
DuplicateOutcome ==
  \A t \in DOMAIN tasks :
    tasks[t].op = "duplicate" =>
      LET ev == tasks[t].events
          notes == Notifications(ev)
          steps == {"fetchDashboard", "createDashboard", "onDashboardsChange",
                    "addSuccessMessage", "addErrorMessage"}
      IN  IF tasks[t].pc # "done"
            THEN /\ notes = <<>>
                 /\ Only(ev, steps) \in {<<"fetchDashboard">>,
                                         <<"fetchDashboard", "createDashboard">>}
          ELSE IF LastResponse(tasks[t]) \in Failures
            THEN /\ Len(notes) = 1
                 /\ notes[1].type = "addErrorMessage"
                 /\ notes[1].message = "Error duplicating Dashboard"
                 /\ Only(ev, {"onDashboardsChange"}) = <<>>
                 /\ LastResponse(tasks[t]) \in {"fetch rejected", "clone threw"}
                      => Only(ev, steps) = <<"fetchDashboard", "addErrorMessage">>
                 /\ LastResponse(tasks[t]) = "create rejected"
                      => Only(ev, steps) = <<"fetchDashboard", "createDashboard",
                                             "addErrorMessage">>
          ELSE /\ Only(ev, steps) = <<"fetchDashboard", "createDashboard",
                                      "onDashboardsChange", "addSuccessMessage">>
               /\ Len(notes) = 1
               /\ notes[1].message = "Dashboard duplicated"

\* one duplicate action has ended in success and another after a failed
\* create request
DuplicateBothOutcomes ==
  \E t, u \in DOMAIN tasks :
    /\ tasks[t].op = "duplicate" /\ tasks[t].pc = "done"
    /\ LastResponse(tasks[t]) = "create resolved"
    /\ tasks[u].op = "duplicate" /\ tasks[u].pc = "done"
    /\ LastResponse(tasks[u]) = "create rejected"

\* the number of dashboards displayed
Displayed == IF dashboards = JSUndefined THEN 0 ELSE Len(dashboards.items)

\* C6: in every rendered state each card's quick-menu 'dashboard-delete' is
\* disabled when exactly one dashboard is present and enabled when two or
\* more are; 'dashboard-duplicate' is never disabled; no card is rendered
\* when the collection is empty or absent.
QuickMenuDeleteRule ==
  /\ Len(View.cards) = Displayed
  /\ \A i \in 1..Len(View.cards) :
       LET disabled == View.cards[i].contextMenu.disabledKeys
       IN  /\ Displayed = 1 => "dashboard-delete" \in disabled
           /\ Displayed >= 2 => "dashboard-delete" \notin disabled
           /\ "dashboard-duplicate" \notin disabled

\* a deletion and the reload after it have left exactly one dashboard on
\* display, whose quick-menu delete is disabled
LastDashboardDisplayed ==
  /\ Displayed = 1
  /\ "dashboard-delete" \in View.cards[1].contextMenu.disabledKeys
  /\ \E t \in DOMAIN tasks :
       /\ tasks[t].op = "delete" /\ tasks[t].pc = "done"
       /\ LastResponse(tasks[t]) = "delete resolved"

(***************************************************************************)
(* Properties of the dataset configuration                                 *)
(***************************************************************************)

\* the option's metadata carries a true unknown flag
UnknownFlagged(option) ==
  "unknown" \in DOMAIN option.value.meta /\ option.value.meta["unknown"] = TRUE

\* the option's metadata declares the data type number
NumericTyped(option) ==
  "dataType" \in DOMAIN option.value.meta
    /\ option.value.meta["dataType"] = "number"

\* the option's metadata declares a data type
DeclaresDataType(option) == "dataType" \in DOMAIN option.value.meta

\* C7 as stated: filterAggregateParams(o) is true if and only if o is
\* unknown-flagged or numeric-typed, hence false for an option that is not
\* unknown-flagged and declares no data type.
AggregateParamIffUnknownOrNumeric ==
  aggregateParam # <<>> =>
    (aggregateParam[1] <=> (UnknownFlagged(cfgOption) \/ NumericTyped(cfgOption)))

\* C7 amended: filterAggregateParams(o) is true if and only if o is
\* unknown-flagged, or numeric-typed, or declares no data type at all; it
\* is false exactly for the options that are not unknown-flagged and
\* declare a non-numeric data type.
AggregateParamUnlessKnownNonNumeric ==
  aggregateParam # <<>> =>
    /\ aggregateParam[1] <=>
         \/ UnknownFlagged(cfgOption)
         \/ NumericTyped(cfgOption)
         \/ ~DeclaresDataType(cfgOption)
    /\ ~aggregateParam[1] <=>
         /\ ~UnknownFlagged(cfgOption)
         /\ DeclaresDataType(cfgOption)
         /\ cfgOption.value.meta["dataType"] # "number"

\* the filter has accepted an option that declares no data type and whose
\* unknown flag is present and false
AggregateParamWithoutDataType ==
  /\ aggregateParam = <<TRUE>>
  /\ ~DeclaresDataType(cfgOption)
  /\ "unknown" \in DOMAIN cfgOption.value.meta
  /\ ~UnknownFlagged(cfgOption)

\* the elements of the tag catalog handed to getTableFieldOptions
CatalogTags == IF cfgTags = JSUndefined THEN <<>> ELSE cfgTags.values

\* '<kind>:<key>' of the i-th element, an absent kind reading 'undefined'
KeyOfTag(i) ==
  (IF "kind" \in DOMAIN CatalogTags[i] THEN CatalogTags[i]["kind"]
   ELSE "undefined") \o ":" \o CatalogTags[i]["key"]

TagKeysOfCatalog == {KeyOfTag(i) : i \in 1..Len(CatalogTags)}

\* the keys of the fixed aggregate-function entries
BaseKeys == {"function:avg", "function:count"}

\* no later element of the catalog has the i-th element's key
LastWithItsKey(i) ==
  \A j \in (i + 1)..Len(CatalogTags) : KeyOfTag(j) # KeyOfTag(i)

\* C8 as stated: the mapping holds one entry per element of T besides the
\* fixed aggregate-function entries: base entries plus |T| entries, even
\* when two elements share kind and key or a tag key is a base entry's key.
FieldOptionsOnePerTag ==
  fieldOptions # <<>> =>
    Cardinality(DOMAIN fieldOptions[1])
      = Cardinality(BaseKeys) + Len(CatalogTags)

\* C8 amended: the mapping's keys are the fixed aggregate-function keys and
\* the '<kind>:<key>' keys of T's elements; elements with the same kind and
\* key share one entry, built from the last of them, and a tag key that is a
\* base entry's key replaces that entry.  The number of entries is the
\* number of base entries plus the number of distinct tag keys that are no
\* base key, which is base + |T| when T's keys are pairwise distinct and
\* none is a base key.
FieldOptionsOnePerTagKey ==
  fieldOptions # <<>> =>
    LET result == fieldOptions[1]
        n == Len(CatalogTags)
    IN  /\ DOMAIN result = BaseKeys \cup TagKeysOfCatalog
        /\ Cardinality(DOMAIN result)
             = Cardinality(BaseKeys) + Cardinality(TagKeysOfCatalog \ BaseKeys)
        /\ \A i \in 1..n :
             LastWithItsKey(i) =>
               /\ result[KeyOfTag(i)].label = CatalogTags[i]["name"]
               /\ result[KeyOfTag(i)].value.kind = "tag"
               /\ result[KeyOfTag(i)].value.meta.name = CatalogTags[i]["key"]
        /\ \A k \in BaseKeys \ TagKeysOfCatalog : result[k].value.kind = "function"
        /\ (Cardinality(TagKeysOfCatalog) = n /\ TagKeysOfCatalog \cap BaseKeys = {})
             => Cardinality(DOMAIN result) = Cardinality(BaseKeys) + n

\* the options were built for a catalog of two elements of the same kind
\* and key, which share one entry
FieldOptionsForSharedKey ==
  /\ fieldOptions # <<>>
  /\ Len(CatalogTags) = 2
  /\ KeyOfTag(1) = KeyOfTag(2)
  /\ KeyOfTag(1) \notin BaseKeys
  /\ Cardinality(DOMAIN fieldOptions[1]) = Cardinality(BaseKeys) + 1

\* C9 as stated: the option built for a tag has data type 'string' when the
\* tag's kind is absent or 'tag', and 'number' for any other declared kind.
TagDataTypeAbsentKindIsString ==
  fieldOptions # <<>> =>
    \A i \in 1..Len(CatalogTags) :
      LastWithItsKey(i) =>
        fieldOptions[1][KeyOfTag(i)].value.meta.dataType
          = IF "kind" \notin DOMAIN CatalogTags[i] \/ CatalogTags[i]["kind"] = "tag"
              THEN "string" ELSE "number"

(***************************************************************************)
(* Properties of the table request                                         *)
(***************************************************************************)

\* C10: the events request is attempted at most 3 times; every attempt
\* after the first follows an answer of status 429; any other answer ends
\* the request at once, 200 in success and the rest in failure; a third
\* consecutive 429 ends it in failure.
RequestRetriedOnRateLimitOnly ==
  request # <<>> =>
    LET r == request.responses
    IN  /\ request.tries <= 3
        /\ Len(request.sent) = request.tries
        /\ Len(r) <= request.tries
        /\ \A k \in 1..Len(r) : k < request.tries => r[k] = 429
        /\ \A k \in 1..Len(r) :
             r[k] # 429 =>
               /\ k = Len(r) /\ k = request.tries
               /\ request.pc = IF r[k] = 200 THEN "resolved" ELSE "rejected"
        /\ (Len(r) < 3 /\ \A k \in 1..Len(r) : r[k] = 429) =>
             /\ request.pc \in {"idle", "waiting"}
             /\ request.pc = "waiting" => request.tries = Len(r) + 1
        /\ r = <<429, 429, 429>> => request.pc = "rejected"

\* three answers of status 429 have ended the request in failure
RequestRateLimitedThrice ==
  /\ request # <<>>
  /\ request.responses = <<429, 429, 429>>
  /\ request.pc = "rejected"
  /\ request.tries = 3

(***************************************************************************)
(* Specifications                                                          *)
(***************************************************************************)

InitPaginate == PgInit /\ ListIdle /\ CfgIdle /\ ReqIdle

SpecPaginate == InitPaginate /\ [][PgNext]_vars

InitList == ListInit /\ PgIdle /\ CfgIdle /\ ReqIdle

SpecList == InitList /\ [][ListNext]_vars

InitConfig == CfgInit /\ PgIdle /\ ListIdle /\ ReqIdle

SpecConfig == InitConfig /\ [][CfgNext]_vars

InitRequest == ReqInit /\ PgIdle /\ ListIdle /\ CfgIdle

SpecRequest == InitRequest /\ [][ReqNext]_vars

=============================================================================
